---- MODULE Spec2Model ----
(***************************************************************************)
(* Model of tmt/hardware.py: the value grammar (VALUE_PATTERN), the leaf   *)
(* constraint (Constraint.from_specification, change_operator,             *)
(* expand_name, uses_constraint), the compound constraints (And, Or) with  *)
(* their span enumeration, and the recursive parser of hardware            *)
(* requirements (parse_hw_requirements and the domain sub-parsers).        *)
(*                                                                         *)
(* Python strings are modelled as sequences of one-character strings, so   *)
(* that the regular expressions are computed character by character.       *)
(***************************************************************************)
EXTENDS Integers, Sequences, FiniteSets, TLC

VARIABLES self, call, ret, objects, exception

vars == <<self, call, ret, objects, exception>>

(***************************************************************************)
(* Bounds of the model.                                                    *)
(***************************************************************************)
\* longest value body appended to a raw leaf value
MaxValueLen == 2
\* most blanks put between the operator sign and the value body
MaxBlanks == 1
\* most mappings in a disk or network list that mixes values
MaxList == 2
\* most blocks (generic, and, or) in a nested specification
MaxBlocks == 4
\* most nodes (leaves and compounds) in a tree built with the constructors
MaxNodes == 5

(***************************************************************************)
(* Strings.                                                                *)
(***************************************************************************)
\* characters the class \s of Python's re matches (those TLA+ can write)
Whitespace == {" ", "\t", "\n", "\r", "\f"}

Max(S) == CHOOSE x \in S : \A y \in S : y <= x

Min(S) == CHOOSE x \in S : \A y \in S : x <= y

Drop(s, k) == SubSeq(s, k + 1, Len(s))

\* str.startswith
IsPrefix(p, s) == Len(p) <= Len(s) /\ SubSeq(s, 1, Len(p)) = p

AllWhitespace(s) == \A i \in 1..Len(s) : s[i] \in Whitespace

\* number of characters a greedy \s* takes at the start of s
LeadingWhitespace(s) ==
    Max({k \in 0..Len(s) : \A i \in 1..k : s[i] \in Whitespace})

\* all strings over alphabet of length at most n
RECURSIVE StringsUpTo(_, _)
StringsUpTo(alphabet, n) ==
    IF n = 0 THEN {<<>>}
    ELSE LET shorter == StringsUpTo(alphabet, n - 1)
         IN  shorter \cup {Append(s, c) : s \in shorter, c \in alphabet}

(***************************************************************************)
(* Operators, their signs and their handlers.                              *)
(***************************************************************************)
\* members of the enum Operator, in definition order
OperatorMembers ==
    <<"EQ", "NEQ", "GT", "GTE", "LT", "LTE", "MATCH", "CONTAINS", "NOTCONTAINS">>

Operator == {OperatorMembers[i] : i \in 1..Len(OperatorMembers)}

\* Operator.<member>.value
OperatorValue(op) ==
    CASE op = "EQ" -> <<"=", "=">>
      [] op = "NEQ" -> <<"!", "=">>
      [] op = "GT" -> <<">">>
      [] op = "GTE" -> <<">", "=">>
      [] op = "LT" -> <<"<">>
      [] op = "LTE" -> <<"<", "=">>
      [] op = "MATCH" -> <<"=", "~">>
      [] op = "CONTAINS" -> <<"c", "o", "n", "t", "a", "i", "n", "s">>
      [] op = "NOTCONTAINS" ->
            <<"n", "o", "t", " ", "c", "o", "n", "t", "a", "i", "n", "s">>

OPERATOR_SIGN_TO_OPERATOR(sign) ==
    CASE sign = <<"=">> -> "EQ"
      [] sign = <<"=", "=">> -> "EQ"
      [] sign = <<"!", "=">> -> "NEQ"
      [] sign = <<">">> -> "GT"
      [] sign = <<">", "=">> -> "GTE"
      [] sign = <<"<">> -> "LT"
      [] sign = <<"<", "=">> -> "LTE"
      [] sign = <<"=", "~">> -> "MATCH"
      [] sign = <<"c", "o", "n", "t", "a", "i", "n", "s">> -> "CONTAINS"
      [] sign = <<"n", "o", "t", " ", "c", "o", "n", "t", "a", "i", "n", "s">> ->
            "NOTCONTAINS"

OPERATOR_TO_HANDLER(op) ==
    CASE op = "EQ" -> "operator.eq"
      [] op = "NEQ" -> "operator.ne"
      [] op = "GT" -> "operator.gt"
      [] op = "GTE" -> "operator.ge"
      [] op = "LT" -> "operator.lt"
      [] op = "LTE" -> "operator.le"
      [] op = "MATCH" -> "match"
      [] op = "CONTAINS" -> "operator.contains"
      [] op = "NOTCONTAINS" -> "notcontains"

(***************************************************************************)
(* VALUE_PATTERN:  ^(?P<operator>==|!=|>|>=|<|<=|=~|contains|not           *)
(* contains)?\s*(?P<value>.+?)\s*$   matched as Python's backtracking      *)
(* matcher does: the alternatives of the operator group are tried in the   *)
(* order written and the group is skipped last, \s* is greedy and gives    *)
(* characters back one at a time, .+? is lazy and never takes a newline.   *)
(***************************************************************************)
\* lengths .+? may take at the start of rem so that \s*$ matches what is left
ValueLengths(rem) ==
    {n \in 1..Len(rem) :
        /\ \A i \in 1..n : rem[i] # "\n"
        /\ AllWhitespace(Drop(rem, n))}

\* numbers of characters the first \s* may keep so that the rest matches
BlankCounts(rest) ==
    {k \in 0..LeadingWhitespace(rest) : ValueLengths(Drop(rest, k)) # {}}

\* \s*(?P<value>.+?)\s*$ matches rest
TailMatches(rest) == BlankCounts(rest) # {}

\* what the group value holds once \s*(?P<value>.+?)\s*$ has matched rest
TailValue(rest) ==
    LET rem == Drop(rest, Max(BlankCounts(rest)))
    IN  SubSeq(rem, 1, Min(ValueLengths(rem)))

\* VALUE_PATTERN.match(raw_value); an unmatched group (None) is the empty text
VALUE_PATTERN_match(raw_value) ==
    LET alternatives ==
            {i \in 1..Len(OperatorMembers) :
                /\ IsPrefix(OperatorValue(OperatorMembers[i]), raw_value)
                /\ TailMatches(Drop(raw_value,
                                    Len(OperatorValue(OperatorMembers[i]))))}
    IN  IF alternatives # {}
        THEN LET sign == OperatorValue(OperatorMembers[Min(alternatives)])
             IN  [matched |-> TRUE,
                  operator |-> sign,
                  value |-> TailValue(Drop(raw_value, Len(sign)))]
        ELSE IF TailMatches(raw_value)
        THEN [matched |-> TRUE, operator |-> <<>>, value |-> TailValue(raw_value)]
        ELSE [matched |-> FALSE]

(***************************************************************************)
(* Constraint, the leaf node.                                              *)
(***************************************************************************)
\* ParseError(constraint_name, raw_value)
ParseError(constraint_name, raw_value) ==
    [type |-> "ParseError",
     constraint_name |-> constraint_name,
     raw_value |-> raw_value,
     message |-> "failed to parse a constraint"]

\* UNITS(text): the quantity the units library builds, kept as its text
UNITS(text) == [kind |-> "Quantity", text |-> text]

\* as_cast(text) for the casts the parsers pass: bool
Cast(as_cast, text) == [kind |-> "bool", truth |-> Len(text) > 0]

\* a faulty variant of ResolveOperator: the default operator is mistyped
ResolveOperatorWrongDefault(sign) ==
    IF sign # <<>> THEN OPERATOR_SIGN_TO_OPERATOR(sign) ELSE "NEQ"

\* the operator from_specification takes from the group operator
ResolveOperator(sign) ==
    IF sign # <<>> THEN OPERATOR_SIGN_TO_OPERATOR(sign) ELSE "EQ"

\* Constraint.from_specification
from_specification(name, raw_value, as_quantity, as_cast) ==
    LET parsed_value == VALUE_PATTERN_match(raw_value)
    IN  IF ~parsed_value.matched
        THEN ParseError(name, raw_value)
        ELSE LET operator == ResolveOperator(parsed_value.operator)
                 value ==
                     IF as_quantity THEN UNITS(parsed_value.value)
                     ELSE IF as_cast # "None" THEN Cast(as_cast, parsed_value.value)
                     ELSE [kind |-> "str", text |-> parsed_value.value]
             IN  [type |-> "Constraint",
                  name |-> name,
                  operator |-> operator,
                  operator_handler |-> OPERATOR_TO_HANDLER(operator),
                  value |-> value,
                  raw_value |-> parsed_value.value,
                  unit |-> "None",
                  original_constraint |-> "None"]

\* a faulty variant of change_operator: the handler is left as it was
change_operator_keeps_handler(constraint, operator) ==
    [constraint EXCEPT !.operator = operator]

\* Constraint.change_operator
change_operator(constraint, operator) ==
    [constraint EXCEPT !.operator = operator,
                       !.operator_handler = OPERATOR_TO_HANDLER(operator)]

(***************************************************************************)
(* Inputs of the leaf operations.                                          *)
(***************************************************************************)
\* characters of the value bodies
ValueChars == {"x", "=", " ", "\n"}

\* what a raw value may start with: each operator sign, nothing, and two
\* texts that are no operator sign
RawPrefixes ==
    {OperatorValue(op) : op \in Operator} \cup {<<>>, <<"=">>, <<"n", "o", "t">>}

Blanks == {[i \in 1..k |-> " "] : k \in 0..MaxBlanks}

\* raw leaf values: a prefix, blanks, a value body
RawValues ==
    {p \o b \o v : p \in RawPrefixes, b \in Blanks,
                   v \in StringsUpTo(ValueChars, MaxValueLen)}

(***************************************************************************)
(* Constraint names.                                                       *)
(***************************************************************************)
\* the characters of the string literals the parsers build names from
Text(literal) ==
    CASE literal = "arch" ->
            <<"a", "r", "c", "h">>
      [] literal = "boot.method" ->
            <<"b", "o", "o", "t", ".", "m", "e", "t", "h", "o", "d">>
      [] literal = "cpu" ->
            <<"c", "p", "u">>
      [] literal = "processors" ->
            <<"p", "r", "o", "c", "e", "s", "s", "o", "r", "s">>
      [] literal = "cores" ->
            <<"c", "o", "r", "e", "s">>
      [] literal = "model" ->
            <<"m", "o", "d", "e", "l">>
      [] literal = "family" ->
            <<"f", "a", "m", "i", "l", "y">>
      [] literal = "model-name" ->
            <<"m", "o", "d", "e", "l", "-", "n", "a", "m", "e">>
      [] literal = "memory" ->
            <<"m", "e", "m", "o", "r", "y">>
      [] literal = "disk" ->
            <<"d", "i", "s", "k">>
      [] literal = "size" ->
            <<"s", "i", "z", "e">>
      [] literal = "network" ->
            <<"n", "e", "t", "w", "o", "r", "k">>
      [] literal = "type" ->
            <<"t", "y", "p", "e">>
      [] literal = "hostname" ->
            <<"h", "o", "s", "t", "n", "a", "m", "e">>
      [] literal = "virtualization.is_virtualized" ->
            <<"v", "i", "r", "t", "u", "a", "l", "i", "z", "a", "t", "i", "o", "n", ".", "i", "s", "_", "v", "i", "r", "t", "u", "a", "l", "i", "z", "e", "d">>
      [] literal = "virtualization.is_supported" ->
            <<"v", "i", "r", "t", "u", "a", "l", "i", "z", "a", "t", "i", "o", "n", ".", "i", "s", "_", "s", "u", "p", "p", "o", "r", "t", "e", "d">>
      [] literal = "virtualization.hypervisor" ->
            <<"v", "i", "r", "t", "u", "a", "l", "i", "z", "a", "t", "i", "o", "n", ".", "h", "y", "p", "e", "r", "v", "i", "s", "o", "r">>

LowerLetters ==
    {"a", "b", "c", "d", "e", "f", "g", "h", "i", "j", "k", "l", "m",
     "n", "o", "p", "q", "r", "s", "t", "u", "v", "w", "x", "y", "z"}

Digits == <<"0", "1", "2", "3", "4", "5", "6", "7", "8", "9">>

DigitChars == {Digits[i] : i \in 1..Len(Digits)}

DigitValue(c) == (CHOOSE i \in 1..Len(Digits) : Digits[i] = c) - 1

\* a faulty variant of IntText: positions are counted from one
IntTextFromOne(n) ==
    IF n < 9 THEN <<Digits[n + 2]>> ELSE <<"1", Digits[n - 8]>>

\* str(n) of an integer n >= 0
RECURSIVE IntText(_)
IntText(n) ==
    IF n < 10 THEN <<Digits[n + 1]>>
    ELSE Append(IntText(n \div 10), Digits[(n % 10) + 1])

\* int(text) of a text of decimal digits
RECURSIVE DigitsInt(_)
DigitsInt(text) ==
    IF text = <<>> THEN 0
    ELSE DigitsInt(SubSeq(text, 1, Len(text) - 1)) * 10
         + DigitValue(text[Len(text)])

\* a faulty variant of Replace: the text is returned as it is
ReplaceNothing(text, old, new) == text

\* str.replace(old, new) for one-character old and new
Replace(text, old, new) ==
    [i \in 1..Len(text) |-> IF text[i] = old THEN new ELSE text[i]]

\* number of characters a greedy [class]* takes at the start of s
LeadingRun(s, class) ==
    Max({k \in 0..Len(s) : \A i \in 1..k : s[i] \in class})

\* PROPERTY_EXPAND_PATTERN.match(name):
\*   (?P<name>[a-z_+]+)(?:\[(?P<index>[+-]?\d+)\])?(?:\.(?P<child_name>[a-z_]+))?
\* an unmatched group (None) is written "None"
PROPERTY_EXPAND_PATTERN_match(name) ==
    LET n == LeadingRun(name, LowerLetters \cup {"_", "+"})
        after_name == Drop(name, n)
        signed == Len(after_name) >= 2 /\ after_name[2] \in {"+", "-"}
        digits_from == IF signed THEN 2 ELSE 1
        d == IF after_name # <<>> /\ after_name[1] = "["
             THEN LeadingRun(Drop(after_name, digits_from), DigitChars)
             ELSE 0
        has_index ==
            /\ d >= 1
            /\ Len(after_name) >= digits_from + d + 1
            /\ after_name[digits_from + d + 1] = "]"
        after_index ==
            IF has_index THEN Drop(after_name, digits_from + d + 1) ELSE after_name
        c == IF after_index # <<>> /\ after_index[1] = "."
             THEN LeadingRun(Drop(after_index, 1), LowerLetters \cup {"_"})
             ELSE 0
    IN  IF n = 0 THEN [matched |-> FALSE]
        ELSE [matched |-> TRUE,
              name |-> SubSeq(name, 1, n),
              index |-> IF has_index
                        THEN [none |-> FALSE,
                              text |-> SubSeq(after_name, 2, digits_from + d)]
                        ELSE [none |-> TRUE],
              child_name |-> IF c >= 1
                             THEN [none |-> FALSE,
                                   text |-> SubSeq(after_index, 2, c + 1)]
                             ELSE [none |-> TRUE]]

\* a faulty variant of SignedInt: only the last digit is read
SignedIntLastDigit(text) == DigitValue(text[Len(text)])

\* int(text) of an optionally signed text of decimal digits
SignedInt(text) ==
    IF text[1] = "-" THEN 0 - DigitsInt(Drop(text, 1))
    ELSE IF text[1] = "+" THEN DigitsInt(Drop(text, 1))
    ELSE DigitsInt(text)

\* a faulty variant of expand_name: the whole name is taken as the property
expand_name_whole_name(constraint) ==
    [type |-> "ConstraintNameComponents",
     property |-> constraint.name,
     property_index |-> [none |-> TRUE],
     child_property |-> [none |-> TRUE]]

\* Constraint.expand_name; the assertion failing is the result AssertionError
expand_name(constraint) ==
    LET match == PROPERTY_EXPAND_PATTERN_match(constraint.name)
    IN  IF ~match.matched THEN [type |-> "AssertionError"]
        ELSE [type |-> "ConstraintNameComponents",
              property |-> match.name,
              property_index |->
                  IF match.index.none THEN [none |-> TRUE]
                  ELSE [none |-> FALSE, int |-> SignedInt(match.index.text)],
              child_property |-> match.child_name]

(***************************************************************************)
(* Compound constraints.                                                   *)
(***************************************************************************)
\* And(constraints): CompoundConstraint.__init__(all, constraints)
And(constraints) ==
    [type |-> "And", reducer |-> "all", constraints |-> constraints]

\* Or(constraints): CompoundConstraint.__init__(any, constraints)
Or(constraints) ==
    [type |-> "Or", reducer |-> "any", constraints |-> constraints]

\* CompoundConstraint(reducer, constraints): a compound node that is neither
\* an And nor an Or
CompoundConstraint(reducer, constraints) ==
    [type |-> "CompoundConstraint", reducer |-> reducer,
     constraints |-> constraints]

\* isinstance(constraint, CompoundConstraint)
IsCompound(constraint) == constraint.type \in {"And", "Or", "CompoundConstraint"}

\* a faulty variant of AnyUses: the answers are reduced with the node's own reducer
ReducerUses(constraint, answers) ==
    IF constraint.reducer = "all"
    THEN \A i \in 1..Len(answers) : answers[i]
    ELSE \E i \in 1..Len(answers) : answers[i]

\* any(...) over the answers of the children, in CompoundConstraint.uses_constraint
AnyUses(constraint, answers) == \E i \in 1..Len(answers) : answers[i]

\* Constraint.uses_constraint and CompoundConstraint.uses_constraint
RECURSIVE uses_constraint(_, _)
uses_constraint(constraint, constraint_name) ==
    IF IsCompound(constraint)
    THEN AnyUses(constraint,
                 [i \in 1..Len(constraint.constraints) |->
                    uses_constraint(constraint.constraints[i], constraint_name)])
    ELSE expand_name(constraint).property = constraint_name

\* sum(lists, []): the concatenation of a list of lists
RECURSIVE Flatten(_)
Flatten(lists) ==
    IF lists = <<>> THEN <<>> ELSE Head(lists) \o Flatten(Tail(lists))

\* a faulty variant of Product: an iterable that yields nothing is passed over
RECURSIVE ProductSkipsEmpty(_)
ProductSkipsEmpty(iterables) ==
    IF iterables = <<>> THEN << <<>> >>
    ELSE LET rest == ProductSkipsEmpty(Tail(iterables))
             first == Head(iterables)
         IN  IF first = <<>> THEN rest
             ELSE Flatten([i \in 1..Len(first) |->
                             [j \in 1..Len(rest) |-> <<first[i]>> \o rest[j]]])

\* list(itertools.product(*iterables)): the last iterable varies fastest
RECURSIVE Product(_)
Product(iterables) ==
    IF iterables = <<>> THEN << <<>> >>
    ELSE LET rest == Product(Tail(iterables))
             first == Head(iterables)
         IN  Flatten([i \in 1..Len(first) |->
                        [j \in 1..Len(rest) |-> <<first[i]>> \o rest[j]]])

\* a faulty variant of IsSimple: every child is taken as a simple constraint
IsSimpleAlways(constraint) == TRUE

\* not isinstance(constraint, CompoundConstraint)
IsSimple(constraint) == ~IsCompound(constraint)

\* a faulty variant of AndSpans: the simple constraints come before the compounds
AndSpansSimpleFirst(members, compound_spans, simple_constraints) ==
    LET product == Product(compound_spans)
    IN  [i \in 1..Len(product) |->
            members \o simple_constraints \o Flatten(product[i])]

\* a faulty variant of AndSpans: the simple constraints are left out
AndSpansCompoundsOnly(members, compound_spans, simple_constraints) ==
    LET product == Product(compound_spans)
    IN  [i \in 1..Len(product) |-> members \o Flatten(product[i])]

\* the loop of And.spans over the spans of the compound children
AndSpans(members, compound_spans, simple_constraints) ==
    LET product == Product(compound_spans)
    IN  [i \in 1..Len(product) |->
            members \o Flatten(product[i]) \o simple_constraints]

\* a faulty variant of OrSpans: only the first span of each child is yielded
OrSpansFirstOnly(members, child_spans) ==
    Flatten([i \in 1..Len(child_spans) |->
                IF child_spans[i] = <<>> THEN <<>>
                ELSE << members \o child_spans[i][1] >>])

\* a faulty variant of OrSpans: the children are given the prefix as well
OrSpansPrefixHandedDown(members, child_spans) ==
    Flatten([i \in 1..Len(child_spans) |->
                [j \in 1..Len(child_spans[i]) |->
                    members \o members \o child_spans[i][j]]])

\* the loops of Or.spans over the children and their spans
OrSpans(members, child_spans) ==
    Flatten([i \in 1..Len(child_spans) |->
                [j \in 1..Len(child_spans[i]) |-> members \o child_spans[i][j]]])

\* a faulty variant of CompoundConstraintSpans: the enumeration ends at once
\* and raises nothing
CompoundConstraintSpansEmpty(members) == [yielded |-> <<>>, raised |-> FALSE]

\* CompoundConstraint.spans: raise NotImplementedError()
CompoundConstraintSpans(members) == [yielded |-> <<>>, raised |-> TRUE]

\* the enumeration of constraint.spans(parent, members) to its end, for
\* ConstraintBase.spans, CompoundConstraint.spans, And.spans and Or.spans:
\* the spans yielded, and whether NotImplementedError ended it; members None
\* is the empty list.  itertools.product takes all the spans of every
\* compound child before And.spans yields, Or.spans yields the spans of a
\* child before it comes to the next one
RECURSIVE enumerate_spans(_, _)
enumerate_spans(constraint, members) ==
    IF constraint.type = "And"
    THEN LET simple_constraints == SelectSeq(constraint.constraints, IsSimple)
             compound_constraints == SelectSeq(constraint.constraints, IsCompound)
             children == [i \in 1..Len(compound_constraints) |->
                            enumerate_spans(compound_constraints[i], <<>>)]
         IN  IF \E i \in 1..Len(children) : children[i].raised
             THEN [yielded |-> <<>>, raised |-> TRUE]
             ELSE [yielded |-> AndSpans(members,
                                        [i \in 1..Len(children) |->
                                            children[i].yielded],
                                        simple_constraints),
                   raised |-> FALSE]
    ELSE IF constraint.type = "Or"
    THEN LET children == [i \in 1..Len(constraint.constraints) |->
                            enumerate_spans(constraint.constraints[i], <<>>)]
             raising == {i \in 1..Len(children) : children[i].raised}
             reached == IF raising = {} THEN Len(children) ELSE Min(raising)
         IN  [yielded |-> OrSpans(members,
                                  [i \in 1..reached |-> children[i].yielded]),
              raised |-> raising # {}]
    ELSE IF constraint.type = "CompoundConstraint"
    THEN CompoundConstraintSpans(members)
    ELSE [yielded |-> << members \o <<constraint>> >>, raised |-> FALSE]

\* the spans that constraint.spans(parent, members) yields
spans(constraint, members) == enumerate_spans(constraint, members).yielded

(***************************************************************************)
(* The identity of list objects.  A list is the caller's (the one passed   *)
(* as members), the constraints list of the compound node at a path of the *)
(* tree, or a list made anew; two names of one object change together.     *)
(***************************************************************************)
MembersObject == [object |-> "members", at |-> <<>>]

ConstraintsObject(path) == [object |-> "constraints", at |-> path]

\* the list a + b: list.__add__ returns a new list, the n-th made for the caller
NewList(n) == [object |-> "new", at |-> <<n>>]

\* a faulty variant of ConstraintBaseYield: self is appended to the members
\* passed, and that list is yielded
ConstraintBaseYieldMembers(members, n) ==
    IF members # <<>> THEN MembersObject ELSE NewList(n)

\* the list ConstraintBase.spans yields: (members or []) + [self]
ConstraintBaseYield(members, n) == NewList(n)

\* the n-th list And.spans yields: members + sum(compounds, []) + simple_constraints
AndYield(members, n) == NewList(n)

\* the n-th list Or.spans yields: members + span
OrYield(members, n) == NewList(n)

\* the objects that list(constraint.spans(parent, members)) holds, in order
spans_objects(constraint, members) ==
    [n \in 1..Len(spans(constraint, members)) |->
        IF constraint.type = "And" THEN AndYield(members, n)
        ELSE IF constraint.type = "Or" THEN OrYield(members, n)
        ELSE ConstraintBaseYield(members, n)]

\* the paths of the compound nodes of a tree
RECURSIVE CompoundPaths(_)
CompoundPaths(constraint) ==
    IF IsCompound(constraint)
    THEN {<<>>} \cup UNION {{<<i>> \o path :
                                path \in CompoundPaths(constraint.constraints[i])} :
                            i \in 1..Len(constraint.constraints)}
    ELSE {}

\* the tree after list.append(member) on the constraints list at path
RECURSIVE AppendAt(_, _, _)
AppendAt(constraint, path, member) ==
    IF path = <<>>
    THEN [constraint EXCEPT !.constraints = Append(@, member)]
    ELSE [constraint EXCEPT
            !.constraints[Head(path)] = AppendAt(@, Tail(path), member)]

\* a faulty variant of lower: the class name is left as it is written
lower_keeps_case(class_name) == class_name

\* self.__class__.__name__.lower()
lower(class_name) ==
    CASE class_name = "And" -> "and"
      [] class_name = "Or" -> "or"

\* CompoundConstraint.to_serialized and Constraint.to_serialized: a mapping
\* is the function from its keys
RECURSIVE to_serialized(_)
to_serialized(constraint) ==
    IF IsCompound(constraint)
    THEN [key \in {lower(constraint.type)} |->
            [i \in 1..Len(constraint.constraints) |->
                to_serialized(constraint.constraints[i])]]
    ELSE [key \in {"name", "operator", "value"} |->
            CASE key = "name" -> constraint.name
              [] key = "operator" -> constraint.operator
              [] key = "value" -> constraint.value]

(***************************************************************************)
(* Raw specifications: Python values tagged with their type.  A dict holds *)
(* a function from its keys (items), a list a sequence (elements), a str   *)
(* its characters (text).                                                  *)
(***************************************************************************)
Str(text) == [py |-> "str", text |-> text]

Bool(truth) == [py |-> "bool", truth |-> truth]

Dict(items) == [py |-> "dict", items |-> items]

List(elements) == [py |-> "list", elements |-> elements]

\* the dict with no key
EmptyItems == [key \in {} |-> Str(<<>>)]

\* str(value) of a str or a bool
PyStr(value) ==
    IF value.py = "str" THEN value.text
    ELSE IF value.truth THEN <<"T", "r", "u", "e">>
    ELSE <<"F", "a", "l", "s", "e">>

\* key in spec
In(key, spec) == key \in DOMAIN spec.items

(***************************************************************************)
(* Constraint parsing.  A parser returns the node it built, or the         *)
(* ParseError that a from_specification it called has raised.              *)
(***************************************************************************)
Raised(result) == result.type = "ParseError"

\* a faulty variant of Extend: a constraint whose building raised is left out
ExtendSkipsRaised(group, results) ==
    LET NotRaised(result) == ~Raised(result)
    IN  [group EXCEPT !.constraints = @ \o SelectSeq(results, NotRaised)]

\* group.constraints += [...], once for each list that results is made of in
\* order: the first constraint whose building raised ends the parser
Extend(group, results) ==
    LET errors == SelectSeq(results, Raised)
    IN  IF errors # <<>> THEN Head(errors)
        ELSE [group EXCEPT !.constraints = @ \o results]

\* a faulty variant of ungroupify: the first child stands for any group that
\* has children
ungroupify_first_child(constraint) ==
    IF IsCompound(constraint) /\ Len(constraint.constraints) >= 1
    THEN constraint.constraints[1]
    ELSE constraint

\* the wrapper of the decorator ungroupify, applied to what fn returned
ungroupify(constraint) ==
    IF IsCompound(constraint) /\ Len(constraint.constraints) = 1
    THEN constraint.constraints[1]
    ELSE constraint

\* the rewrite of the operator in _parse_boot
BootOperator(constraint) ==
    IF constraint.operator = "EQ" THEN change_operator(constraint, "CONTAINS")
    ELSE IF constraint.operator = "NEQ"
    THEN change_operator(constraint, "NOTCONTAINS")
    ELSE constraint

_parse_boot(spec) ==
    ungroupify(
        IF In("method", spec)
        THEN LET constraint ==
                     from_specification(Text("boot.method"),
                                        spec.items["method"].text, FALSE, "None")
             IN  IF Raised(constraint) THEN constraint
                 ELSE Extend(And(<<>>), <<BootOperator(constraint)>>)
        ELSE And(<<>>))

_parse_virtualization(spec) ==
    LET is_virtualized ==
            IF In("is-virtualized", spec)
            THEN <<from_specification(Text("virtualization.is_virtualized"),
                                      PyStr(spec.items["is-virtualized"]),
                                      FALSE, "bool")>>
            ELSE <<>>
        is_supported ==
            IF In("is-supported", spec)
            THEN <<from_specification(Text("virtualization.is_supported"),
                                      PyStr(spec.items["is-supported"]),
                                      FALSE, "bool")>>
            ELSE <<>>
        hypervisor ==
            IF In("hypervisor", spec)
            THEN <<from_specification(Text("virtualization.hypervisor"),
                                      spec.items["hypervisor"].text,
                                      FALSE, "None")>>
            ELSE <<>>
    IN  ungroupify(
            Extend(And(<<>>), is_virtualized \o is_supported \o hypervisor))

_parse_cpu(spec) ==
    LET Present(constraint_name) == In(constraint_name, spec)
        quantity_names ==
            SelectSeq(<<"processors", "cores", "model", "family">>, Present)
        text_names == SelectSeq(<<"model-name">>, Present)
        quantities ==
            [i \in 1..Len(quantity_names) |->
                from_specification(
                    Text("cpu") \o <<".">> \o Text(quantity_names[i]),
                    PyStr(spec.items[quantity_names[i]]), TRUE, "None")]
        texts ==
            [i \in 1..Len(text_names) |->
                from_specification(
                    Text("cpu") \o <<".">>
                        \o Replace(Text(text_names[i]), "-", "_"),
                    PyStr(spec.items[text_names[i]]), FALSE, "None")]
    IN  ungroupify(Extend(And(<<>>), quantities \o texts))

_parse_disk(spec, disk_index) ==
    LET Present(constraint_name) == In(constraint_name, spec)
        names == SelectSeq(<<"size">>, Present)
    IN  Extend(And(<<>>),
               [i \in 1..Len(names) |->
                   from_specification(
                       Text("disk") \o <<"[">> \o IntText(disk_index)
                           \o <<"]", ".">> \o Text(names[i]),
                       PyStr(spec.items[names[i]]), TRUE, "None")])

_parse_disks(spec) ==
    ungroupify(
        IF spec.py = "dict" THEN _parse_disk(spec, 0)
        ELSE Extend(And(<<>>),
                    [i \in 1..Len(spec.elements) |->
                        _parse_disk(spec.elements[i], i - 1)]))

_parse_network(spec, network_index) ==
    LET Present(constraint_name) == In(constraint_name, spec)
        names == SelectSeq(<<"type">>, Present)
    IN  Extend(And(<<>>),
               [i \in 1..Len(names) |->
                   from_specification(
                       Text("network") \o <<"[">> \o IntText(network_index)
                           \o <<"]", ".">> \o Text(names[i]),
                       PyStr(spec.items[names[i]]), FALSE, "None")])

_parse_networks(spec) ==
    ungroupify(
        Extend(And(<<>>),
               [i \in 1..Len(spec.elements) |->
                   _parse_network(spec.elements[i], i - 1)]))

\* a faulty variant of _parse_generic_spec: the keys are taken in the
\* opposite order
_parse_generic_spec_reversed(spec) ==
    LET Present(key) == In(key, spec)
        Child(key) ==
            CASE key \in {"arch", "hostname"} ->
                    from_specification(Text(key), spec.items[key].text,
                                       FALSE, "None")
              [] key = "memory" ->
                    from_specification(Text(key), PyStr(spec.items[key]),
                                       TRUE, "None")
              [] key = "boot" -> _parse_boot(spec.items[key])
              [] key = "cpu" -> _parse_cpu(spec.items[key])
              [] key = "disk" -> _parse_disks(spec.items[key])
              [] key = "network" -> _parse_networks(spec.items[key])
              [] key = "virtualization" -> _parse_virtualization(spec.items[key])
        present ==
            SelectSeq(<<"virtualization", "hostname", "network", "disk",
                        "memory", "cpu", "boot", "arch">>, Present)
    IN  ungroupify(
            Extend(And(<<>>), [i \in 1..Len(present) |-> Child(present[i])]))

_parse_generic_spec(spec) ==
    LET arch ==
            IF In("arch", spec)
            THEN <<from_specification(Text("arch"), spec.items["arch"].text,
                                      FALSE, "None")>>
            ELSE <<>>
        boot ==
            IF In("boot", spec) THEN <<_parse_boot(spec.items["boot"])>> ELSE <<>>
        cpu ==
            IF In("cpu", spec) THEN <<_parse_cpu(spec.items["cpu"])>> ELSE <<>>
        memory ==
            IF In("memory", spec)
            THEN <<from_specification(Text("memory"),
                                      PyStr(spec.items["memory"]), TRUE, "None")>>
            ELSE <<>>
        disk ==
            IF In("disk", spec) THEN <<_parse_disks(spec.items["disk"])>> ELSE <<>>
        network ==
            IF In("network", spec)
            THEN <<_parse_networks(spec.items["network"])>>
            ELSE <<>>
        hostname ==
            IF In("hostname", spec)
            THEN <<from_specification(Text("hostname"),
                                      spec.items["hostname"].text, FALSE, "None")>>
            ELSE <<>>
        virtualization ==
            IF In("virtualization", spec)
            THEN <<_parse_virtualization(spec.items["virtualization"])>>
            ELSE <<>>
    IN  ungroupify(
            Extend(And(<<>>),
                   arch \o boot \o cpu \o memory \o disk \o network
                       \o hostname \o virtualization))

RECURSIVE _parse_block(_)

_parse_and(spec) ==
    ungroupify(
        Extend(And(<<>>),
               [i \in 1..Len(spec.elements) |-> _parse_block(spec.elements[i])]))

\* a faulty variant of _parse_or: the members are collected into an And
_parse_or_into_and(spec) == _parse_and(spec)

_parse_or(spec) ==
    ungroupify(
        Extend(Or(<<>>),
               [i \in 1..Len(spec.elements) |-> _parse_block(spec.elements[i])]))

\* a faulty variant of _parse_block: the key or is looked for first
_parse_block_or_first(spec) ==
    IF In("or", spec) THEN _parse_or(spec.items["or"])
    ELSE IF In("and", spec) THEN _parse_and(spec.items["and"])
    ELSE _parse_generic_spec(spec)

_parse_block(spec) ==
    IF In("and", spec) THEN _parse_and(spec.items["and"])
    ELSE IF In("or", spec) THEN _parse_or(spec.items["or"])
    ELSE _parse_generic_spec(spec)

parse_hw_requirements(spec) == _parse_block(spec)

(***************************************************************************)
(* Inputs of the parser.                                                   *)
(***************************************************************************)
\* f with key mapped to value
With(f, key, value) ==
    [k \in DOMAIN f \cup {key} |-> IF k = key THEN value ELSE f[k]]

\* {key: value}
One(key, value) == Dict(With(EmptyItems, key, value))

\* leaf texts: every operator sign (and two texts that are none) before "x",
\* "x" alone, and the empty text
SpecTexts == {p \o <<"x">> : p \in RawPrefixes} \cup {<<>>}

\* the few leaf texts used where several leaves are combined
FewTexts == {<<"x">>, <<">", "=", "x">>, <<>>}

\* all lists of at most n members of S
RECURSIVE ListsUpTo(_, _)
ListsUpTo(S, n) ==
    IF n = 0 THEN {<<>>}
    ELSE LET shorter == ListsUpTo(S, n - 1)
         IN  shorter \cup {Append(l, m) : l \in shorter, m \in S}

\* the mappings of a disk (key size) or network (key type) list
Mappings(key, texts) == {Dict(EmptyItems)} \cup {One(key, Str(t)) : t \in texts}

IndexedSpecs(key) ==
    {List(<<m>>) : m \in Mappings(key, SpecTexts)}
    \cup {List(l) : l \in ListsUpTo(Mappings(key, FewTexts), MaxList)}

CpuKeys == {"processors", "cores", "model", "family", "model-name"}

CpuSpecs ==
    {Dict(EmptyItems)}
    \cup {One(k, Str(t)) : k \in CpuKeys, t \in SpecTexts}
    \cup {Dict(With(With(EmptyItems, k1, Str(t1)), k2, Str(t2))) :
            k1 \in CpuKeys, k2 \in CpuKeys, t1 \in FewTexts, t2 \in FewTexts}

Truths ==
    {Bool(TRUE), Bool(FALSE),
     Str(<<"t", "r", "u", "e">>), Str(<<"f", "a", "l", "s", "e">>), Str(<<>>)}

VirtualizationSpecs ==
    {Dict(EmptyItems)}
    \cup {One("is-virtualized", v) : v \in Truths}
    \cup {One("is-supported", v) : v \in Truths}
    \cup {One("hypervisor", Str(t)) : t \in SpecTexts}
    \cup {Dict(With(With(EmptyItems, "is-supported", v), "hypervisor", Str(t))) :
            v \in Truths, t \in FewTexts}

BootSpecs == {Dict(EmptyItems)} \cup {One("method", Str(t)) : t \in SpecTexts}

\* generic blocks holding one namespace
NamespaceSpecs ==
    {One(k, Str(t)) : k \in {"arch", "hostname", "memory"}, t \in SpecTexts}
    \cup {One("memory", v) : v \in {Bool(TRUE)}}
    \cup {One("boot", b) : b \in BootSpecs}
    \cup {One("cpu", c) : c \in CpuSpecs}
    \cup {One("disk", d) : d \in Mappings("size", SpecTexts)}
    \cup {One("disk", d) : d \in IndexedSpecs("size")}
    \cup {One("network", n) : n \in IndexedSpecs("type")}
    \cup {One("virtualization", v) : v \in VirtualizationSpecs}

TopKeys ==
    {"arch", "boot", "cpu", "memory", "disk", "network", "hostname",
     "virtualization"}

\* one value for each top-level key
SampleValue(key) ==
    CASE key \in {"arch", "hostname", "memory"} -> Str(<<"x">>)
      [] key = "boot" -> One("method", Str(<<"x">>))
      [] key = "cpu" -> One("cores", Str(<<"x">>))
      [] key = "disk" -> List(<<One("size", Str(<<"x">>))>>)
      [] key = "network" -> List(<<One("type", Str(<<"x">>))>>)
      [] key = "virtualization" -> One("hypervisor", Str(<<"x">>))

\* generic blocks holding any set of the top-level keys
KeySetSpecs == {Dict([k \in keys |-> SampleValue(k)]) : keys \in SUBSET TopKeys}

\* the generic blocks put inside and/or blocks
MemberSpecs ==
    {Dict(EmptyItems),
     One("arch", Str(<<"x">>)),
     One("memory", Str(<<>>)),
     One("disk", List(<<One("size", Str(<<"x">>))>>)),
     Dict(With(With(EmptyItems, "arch", Str(<<"x">>)),
               "hostname", Str(<<"!", "=", "x">>)))}

\* nested specifications by their number of blocks, built size after size:
\* blocks[n] holds the specifications made of exactly n blocks, lists[n] the
\* lists of specifications made of n - 1 blocks in all, all the specifications
\* made of at most n blocks
\* the lists of n - 1 blocks in all whose first member has at most k blocks
RECURSIVE BlockListsOf(_, _, _)
BlockListsOf(smaller, n, k) ==
    IF n = 1 THEN {<<>>}
    ELSE IF k = 0 THEN {}
    ELSE {<<b>> \o l : b \in smaller.blocks[k], l \in smaller.lists[n - k]}
         \cup BlockListsOf(smaller, n, k - 1)

BlocksOf(lists, n) ==
    (IF n = 1 THEN MemberSpecs ELSE {})
    \cup {One(k, List(l)) : k \in {"and", "or"}, l \in lists}

\* each step is the one member of a singleton, so that it is evaluated once
RECURSIVE BlockTable(_)
BlockTable(n) ==
    IF n = 0 THEN [blocks |-> <<>>, lists |-> <<>>, all |-> {}]
    ELSE CHOOSE table \in
            UNION {UNION {{[blocks |-> Append(smaller.blocks, blocks),
                            lists |-> Append(smaller.lists, lists),
                            all |-> smaller.all \cup blocks] :
                                blocks \in {BlocksOf(lists, n)}} :
                            lists \in {BlockListsOf(smaller, n, n - 1)}} :
                    smaller \in {BlockTable(n - 1)}} : TRUE

NestedSpecs == BlockTable(MaxBlocks).all

\* {or: [{arch: x86_64}, {arch: aarch64}]} and the same under and
ArchBlocks ==
    {One(k, List(<<One("arch", Str(<<"x", "8", "6", "_", "6", "4">>)),
                   One("arch", Str(<<"a", "a", "r", "c", "h", "6", "4">>))>>)) :
        k \in {"and", "or"}}

\* blocks holding any of the keys and, or beside leaf-bearing keys; the
\* value of memory is a text that fails the value grammar
MixedValue(key) ==
    CASE key = "and" -> List(<<One("arch", Str(<<"x">>)),
                               One("memory", Str(<<"x">>))>>)
      [] key = "or" -> List(<<One("hostname", Str(<<"x">>)),
                              One("cpu", One("cores", Str(<<"x">>)))>>)
      [] key = "arch" -> Str(<<"!", "=", "x">>)
      [] key = "memory" -> Str(<<>>)

MixedSpecs ==
    {Dict([k \in keys |-> MixedValue(k)]) :
        keys \in SUBSET {"and", "or", "arch", "memory"}}

\* a disk list and a network list of eleven mappings, of which the second and
\* the last hold the key: the names disk[1].size and disk[10].size
LongLists ==
    {One(k[1], List([i \in 1..11 |->
                        IF i \in {2, 11} THEN One(k[2], Str(<<"x">>))
                        ELSE Dict(EmptyItems)])) :
        k \in {<<"disk", "size">>, <<"network", "type">>}}

Specs ==
    NamespaceSpecs \cup KeySetSpecs \cup NestedSpecs \cup ArchBlocks
        \cup MixedSpecs \cup LongLists

(***************************************************************************)
(* Inputs of the operations on trees.                                      *)
(***************************************************************************)
\* the leaves of the trees built with the constructors
Leaves ==
    {from_specification(Text("cpu") \o <<".">> \o Text("cores"),
                        <<"x">>, FALSE, "None"),
     from_specification(Text("memory"), <<"x">>, FALSE, "None"),
     from_specification(Text("disk") \o <<"[", "0", "]", ".">> \o Text("size"),
                        <<"x">>, FALSE, "None")}

\* trees by their number of nodes, built size after size: trees[n] holds the
\* trees of exactly n nodes, lists[n] the lists of trees of n - 1 nodes in
\* all, all the trees of at most n nodes
\* the lists of n - 1 nodes in all whose first member has at most k nodes
RECURSIVE TreeListsOf(_, _, _)
TreeListsOf(smaller, n, k) ==
    IF n = 1 THEN {<<>>}
    ELSE IF k = 0 THEN {}
    ELSE {<<t>> \o l : t \in smaller.trees[k], l \in smaller.lists[n - k]}
         \cup TreeListsOf(smaller, n, k - 1)

TreesOf(lists, n) ==
    (IF n = 1 THEN Leaves ELSE {})
    \cup {And(l) : l \in lists}
    \cup {Or(l) : l \in lists}

\* each step is the one member of a singleton, so that it is evaluated once
RECURSIVE TreeTable(_)
TreeTable(n) ==
    IF n = 0 THEN [trees |-> <<>>, lists |-> <<>>, all |-> {}]
    ELSE CHOOSE table \in
            UNION {UNION {{[trees |-> Append(smaller.trees, trees),
                            lists |-> Append(smaller.lists, lists),
                            all |-> smaller.all \cup trees] :
                                trees \in {TreesOf(lists, n)}} :
                            lists \in {TreeListsOf(smaller, n, n - 1)}} :
                    smaller \in {TreeTable(n - 1)}} : TRUE

\* the trees of at most MaxNodes nodes
Trees == TreeTable(MaxNodes).all

\* the compound nodes that are neither an And nor an Or: a reducer, and no
\* child or one leaf
BareCompounds ==
    {CompoundConstraint(reducer, constraints) :
        reducer \in {"any", "all"},
        constraints \in {<<>>} \cup {<<leaf>> : leaf \in Leaves}}

\* what stands beside a bare compound node
Siblings ==
    Leaves \cup {Or(<<>>), And(<<>>)}
    \cup {Or(<<leaf>>) : leaf \in Leaves} \cup {And(<<leaf>>) : leaf \in Leaves}

\* a bare compound node, alone, or with a sibling on either side under an And
\* or an Or, at the root or one level down
CompoundTrees ==
    LET Groups(children) == {And(children), Or(children)}
        pairs == {<<s, b>> : s \in Siblings, b \in BareCompounds}
                 \cup {<<b, s>> : s \in Siblings, b \in BareCompounds}
        one_level ==
            UNION {Groups(<<b>>) : b \in BareCompounds}
            \cup UNION {Groups(children) : children \in pairs}
    IN  BareCompounds \cup one_level
        \cup UNION {Groups(<<tree>>) : tree \in one_level}

\* the lists passed as members to spans; None is the empty list
MembersLists ==
    {<<>>, <<from_specification(Text("hostname"), <<"x">>, FALSE, "None")>>}

\* the names asked of uses_constraint
AskedNames ==
    {Text("cpu"), Text("memory"), Text("disk"), Text("cores"),
     Text("cpu") \o <<".">> \o Text("cores")}

\* the pairs (as_quantity, as_cast) the parsers pass to from_specification
Conversions == {<<TRUE, "None">>, <<FALSE, "None">>, <<FALSE, "bool">>}

\* the names given to from_specification
LeafNames == {Text("arch"), Text("boot.method")}

(***************************************************************************)
(* The state: self is the constraint at hand (a leaf or a tree, None       *)
(* before one is built), call the last call made with its arguments, ret   *)
(* what that call returned or raised, objects the lists the caller holds   *)
(* after a call of spans: members is the list passed as members as it is   *)
(* now, spans[i] the identity of the list ret[i]; exception is the         *)
(* NotImplementedError that ended an enumeration of spans before its end,  *)
(* ret then holding the spans yielded before it, and None otherwise.  A    *)
(* constraint is built once, by the first call; a parser that raises       *)
(* builds none.                                                            *)
(***************************************************************************)
None == [type |-> "None"]

NotImplementedError == [type |-> "NotImplementedError"]

\* no list is held by the caller
NoObjects == [members |-> <<>>, spans |-> <<>>]

Init ==
    /\ self = None
    /\ call = [fn |-> "None"]
    /\ ret = None
    /\ objects = NoObjects
    /\ exception = None

\* Constraint.from_specification(name, raw_value, as_quantity, as_cast)
FromSpecification ==
    /\ call.fn = "None"
    /\ \E name \in LeafNames, raw_value \in RawValues,
          conversion \in Conversions :
        LET result == from_specification(name, raw_value,
                                         conversion[1], conversion[2])
        IN  /\ call' = [fn |-> "from_specification", name |-> name,
                        raw_value |-> raw_value, as_quantity |-> conversion[1],
                        as_cast |-> conversion[2]]
            /\ ret' = result
            /\ self' = IF Raised(result) THEN None ELSE result
            /\ objects' = NoObjects
            /\ exception' = None

\* self.change_operator(operator) on a leaf
ChangeOperator ==
    /\ self.type = "Constraint"
    /\ \E operator \in Operator :
        /\ self' = change_operator(self, operator)
        /\ call' = [fn |-> "change_operator", operator |-> operator]
        /\ ret' = None
        /\ objects' = NoObjects
        /\ exception' = None

\* parse_hw_requirements(spec)
ParseHwRequirements ==
    /\ call.fn = "None"
    /\ \E spec \in Specs :
        LET result == parse_hw_requirements(spec)
        IN  /\ call' = [fn |-> "parse_hw_requirements", spec |-> spec]
            /\ ret' = result
            /\ self' = IF Raised(result) THEN None ELSE result
            /\ objects' = NoObjects
            /\ exception' = None

\* a tree built with And(...), Or(...) over leaves
Construct ==
    /\ call.fn = "None"
    /\ \E tree \in Trees :
        /\ call' = [fn |-> "construct"]
        /\ ret' = tree
        /\ self' = tree
        /\ objects' = NoObjects
        /\ exception' = None

\* a tree that holds a compound node that is neither an And nor an Or
ConstructCompound ==
    /\ call.fn = "None"
    /\ \E tree \in CompoundTrees :
        /\ call' = [fn |-> "construct"]
        /\ ret' = tree
        /\ self' = tree
        /\ objects' = NoObjects
        /\ exception' = None

\* list(self.spans(parent, members))
Spans ==
    /\ self # None
    /\ \E members \in MembersLists :
        /\ call' = [fn |-> "spans", members |-> members]
        /\ ret' = spans(self, members)
        /\ objects' = [members |-> members,
                       spans |-> spans_objects(self, members)]
        /\ exception' = IF enumerate_spans(self, members).raised
                        THEN NotImplementedError ELSE None
        /\ UNCHANGED self

\* self.uses_constraint(parent, constraint_name)
UsesConstraint ==
    /\ self # None
    /\ \E constraint_name \in AskedNames :
        /\ call' = [fn |-> "uses_constraint", constraint_name |-> constraint_name]
        /\ ret' = uses_constraint(self, constraint_name)
        /\ objects' = NoObjects
        /\ exception' = None
        /\ UNCHANGED self

\* self.to_serialized()
ToSerialized ==
    /\ self # None
    /\ call' = [fn |-> "to_serialized"]
    /\ ret' = to_serialized(self)
    /\ objects' = NoObjects
    /\ exception' = None
    /\ UNCHANGED self

\* self.expand_name() on a leaf
ExpandName ==
    /\ self.type = "Constraint"
    /\ call' = [fn |-> "expand_name"]
    /\ ret' = expand_name(self)
    /\ objects' = NoObjects
    /\ exception' = None
    /\ UNCHANGED self

\* next(self.spans(parent, members)), the generator then dropped: the code
\* has run up to its first yield, or to the raise that comes before any
\* yield; an enumeration that ends without a yield is left out
SpansAbandoned ==
    /\ self # None
    /\ \E members \in MembersLists :
        /\ \/ spans(self, members) # <<>>
           \/ enumerate_spans(self, members).raised
        /\ call' = [fn |-> "next(spans)", members |-> members]
        /\ IF spans(self, members) = <<>>
           THEN /\ ret' = <<>>
                /\ objects' = [members |-> members, spans |-> <<>>]
                /\ exception' = NotImplementedError
           ELSE /\ ret' = SubSeq(spans(self, members), 1, 1)
                /\ objects' = [members |-> members,
                               spans |-> SubSeq(spans_objects(self, members),
                                                1, 1)]
                /\ exception' = None
        /\ UNCHANGED self

\* the caller appends member to the index-th list that spans yielded: every
\* name of that list object shows the change
Appended(index, member) ==
    LET target == objects.spans[index]
    IN  /\ ret' = [i \in 1..Len(ret) |->
                    IF objects.spans[i] = target THEN Append(ret[i], member)
                    ELSE ret[i]]
        /\ objects' = [objects EXCEPT
                        !.members = IF target = MembersObject
                                    THEN Append(@, member) ELSE @]
        /\ self' = IF target.object = "constraints"
                   THEN AppendAt(self, target.at, member) ELSE self
        /\ UNCHANGED exception

ChangeSpan ==
    /\ call.fn \in {"spans", "next(spans)"}
    /\ \E index \in 1..Len(ret) :
        /\ call' = [fn |-> "span.append", members |-> call.members,
                    index |-> index]
        /\ Appended(index, from_specification(Text("arch"), <<"x">>,
                                              FALSE, "None"))

\* the leaf operations
NextLeaf ==
    \/ FromSpecification
    \/ ChangeOperator

SpecLeaf == Init /\ [][NextLeaf]_vars

\* parsing, then the inspection of the parsed tree
NextParse ==
    \/ ParseHwRequirements
    \/ Spans
    \/ UsesConstraint
    \/ ToSerialized
    \/ ExpandName
    \/ SpansAbandoned
    \/ ChangeSpan

SpecParse == Init /\ [][NextParse]_vars

\* the inspection of trees built with the constructors
NextTree ==
    \/ Construct
    \/ Spans
    \/ UsesConstraint

SpecTree == Init /\ [][NextTree]_vars

\* the enumeration of the spans of trees that hold a bare compound node
NextCompound ==
    \/ ConstructCompound
    \/ Spans
    \/ SpansAbandoned

SpecCompound == Init /\ [][NextCompound]_vars

Next ==
    \/ NextLeaf
    \/ NextParse
    \/ NextTree
    \/ NextCompound

Spec == Init /\ [][Next]_vars

(***************************************************************************)
(* What the claims speak of.                                               *)
(***************************************************************************)
\* text.strip()
Trim(text) ==
    LET first == LeadingWhitespace(text)
        kept == Drop(text, first)
        last == Max({n \in 0..Len(kept) :
                        n = 0 \/ kept[n] \notin Whitespace})
    IN  SubSeq(kept, 1, last)

\* the operators whose sign text starts with
SignsAt(text) == {op \in Operator : IsPrefix(OperatorValue(op), text)}

\* the operator token text starts with: the longest sign that is a prefix
WrittenOperator(text) ==
    CHOOSE op \in SignsAt(text) :
        \A other \in SignsAt(text) :
            Len(OperatorValue(other)) <= Len(OperatorValue(op))

\* the text after the operator token
AfterOperator(text) == Drop(text, Len(OperatorValue(WrittenOperator(text))))

HasNewline(text) == \E i \in 1..Len(text) : text[i] = "\n"

\* the leaves of a tree, whatever the compound nodes are
RECURSIVE LeavesOf(_)
LeavesOf(constraint) ==
    IF IsCompound(constraint)
    THEN UNION {LeavesOf(constraint.constraints[i]) :
                    i \in 1..Len(constraint.constraints)}
    ELSE {constraint}

\* the tree with every And turned into an Or and every Or into an And
RECURSIVE Flipped(_)
Flipped(constraint) ==
    IF IsCompound(constraint)
    THEN LET children == [i \in 1..Len(constraint.constraints) |->
                            Flipped(constraint.constraints[i])]
         IN  IF constraint.type = "And" THEN Or(children) ELSE And(children)
    ELSE constraint

\* the compound nodes of a tree that hold exactly one child
RECURSIVE SingleChildNodes(_)
SingleChildNodes(constraint) ==
    IF IsCompound(constraint)
    THEN (IF Len(constraint.constraints) = 1 THEN {constraint} ELSE {})
         \cup UNION {SingleChildNodes(constraint.constraints[i]) :
                        i \in 1..Len(constraint.constraints)}
    ELSE {}

RECURSIVE SumOf(_)
SumOf(numbers) == IF numbers = <<>> THEN 0 ELSE Head(numbers) + SumOf(Tail(numbers))

RECURSIVE ProductOf(_)
ProductOf(numbers) ==
    IF numbers = <<>> THEN 1 ELSE Head(numbers) * ProductOf(Tail(numbers))

\* the leaves the examples name
LeafA ==
    from_specification(Text("cpu") \o <<".">> \o Text("cores"),
                       <<"x">>, FALSE, "None")

LeafB == from_specification(Text("memory"), <<"x">>, FALSE, "None")

LeafC ==
    from_specification(Text("disk") \o <<"[", "0", "]", ".">> \o Text("size"),
                       <<"x">>, FALSE, "None")

ReturnedLeaf == call.fn = "from_specification" /\ ret.type = "Constraint"

Parsed == call.fn = "parse_hw_requirements" /\ ~Raised(ret)

(***************************************************************************)
(* C1: from_specification resolves the leading operator token to its own   *)
(* operator for each of the nine signs: a raw value made of a sign,        *)
(* optional whitespace and a value text that is not empty once trimmed     *)
(* yields a leaf with the operator of that sign and the trimmed value text.*)
(***************************************************************************)
C1_SignResolvesToOwnOperator ==
    (/\ call.fn = "from_specification"
     /\ SignsAt(call.raw_value) # {}
     /\ Trim(AfterOperator(call.raw_value)) # <<>>
     /\ ~HasNewline(Trim(AfterOperator(call.raw_value))))
    => /\ ret.type = "Constraint"
       /\ ret.operator = WrittenOperator(call.raw_value)
       /\ ret.raw_value = Trim(AfterOperator(call.raw_value))

(***************************************************************************)
(* C2: every raw value that does not start with an operator sign yields a  *)
(* leaf whose operator is EQ and whose handler is the handler of EQ.       *)
(***************************************************************************)
C2_NoSignYieldsEqLeaf ==
    (call.fn = "from_specification" /\ SignsAt(call.raw_value) = {})
    => /\ ret.type = "Constraint"
       /\ ret.operator = "EQ"
       /\ ret.operator_handler = "operator.eq"

\* C2 as amended: every raw value that matches the value grammar and does
\* not start with an operator sign yields a leaf whose operator is EQ and
\* whose handler is the handler of EQ.
C2_NoSignMatchedYieldsEq ==
    (/\ call.fn = "from_specification"
     /\ SignsAt(call.raw_value) = {}
     /\ VALUE_PATTERN_match(call.raw_value).matched)
    => /\ ret.type = "Constraint"
       /\ ret.operator = "EQ"
       /\ ret.operator_handler = "operator.eq"

\* a raw value that starts with "=", which is no sign of the grammar, is parsed
C2_Witness ==
    /\ ReturnedLeaf
    /\ call.raw_value = <<"=", " ", "x">>
    /\ ret.operator = "EQ"
    /\ ret.raw_value = <<"=", " ", "x">>

(***************************************************************************)
(* C3: the tree parse_hw_requirements returns holds no And or Or node with *)
(* exactly one child, at any level.                                        *)
(***************************************************************************)
C3_NoSingleChildNode == Parsed => SingleChildNodes(ret) = {}

(***************************************************************************)
(* C4: the legacy disk form {disk: {size: s}} parses to the same tree as   *)
(* the list form {disk: [{size: s}]}.                                      *)
(***************************************************************************)
C4_LegacyDiskSameAsList ==
    (/\ call.fn = "parse_hw_requirements"
     /\ DOMAIN call.spec.items = {"disk"}
     /\ call.spec.items["disk"].py = "dict"
     /\ DOMAIN call.spec.items["disk"].items = {"size"})
    => ret = parse_hw_requirements(
                One("disk", List(<<call.spec.items["disk"]>>)))

(***************************************************************************)
(* C5: And.spans yields one span per combination of the spans of its       *)
(* compound children, in product order (the last compound child varies     *)
(* fastest), each the prefix, then the spans of the combination in child   *)
(* order, then the simple children; And([Or([A, B]), C]) yields [A, C]     *)
(* then [B, C], also when C is declared first.                             *)
(***************************************************************************)
\* the span of compound child i (of lengths counts) in combination number n,
\* counted from 0: the digit of n at place i in the mixed radix counts
Digit(counts, i, n) ==
    (n \div ProductOf(SubSeq(counts, i + 1, Len(counts)))) % counts[i]

C6_OrSpansIsConcatenation ==
    (call.fn = "spans" /\ self.type = "Or")
    => LET child_spans == [i \in 1..Len(self.constraints) |->
                            spans(self.constraints[i], <<>>)]
           counts == [i \in 1..Len(child_spans) |-> Len(child_spans[i])]
       IN  /\ Len(ret) = SumOf(counts)
           /\ \A i \in 1..Len(child_spans) : \A j \in 1..counts[i] :
                ret[SumOf(SubSeq(counts, 1, i - 1)) + j]
                    = call.members \o child_spans[i][j]
           /\ (self = Or(<<LeafA, LeafB>>)
               => ret = << call.members \o <<LeafA>>,
                           call.members \o <<LeafB>> >>)

\* the spans of an Or one of whose children yields two spans, with a prefix
C6_Witness ==
    /\ call.fn = "spans"
    /\ self = Or(<<LeafC, Or(<<LeafA, LeafB>>)>>)
    /\ call.members # <<>>
    /\ Len(ret) = 3

(***************************************************************************)
(* C7: uses_constraint on an And or Or is true iff some leaf of its        *)
(* subtree has the decomposed property asked for, and the answer is the    *)
(* same when the compound nodes are And or Or; for And([cpu.cores,         *)
(* Or([memory])]) it is true of memory and false of disk.                  *)
(***************************************************************************)
C7_UsesIffSomeLeaf ==
    (call.fn = "uses_constraint" /\ IsCompound(self))
    => /\ ret = (\E leaf \in LeavesOf(self) :
                    expand_name(leaf).property = call.constraint_name)
       /\ ret = uses_constraint(Flipped(self), call.constraint_name)
       /\ (self = And(<<LeafA, Or(<<LeafB>>)>>)
           => /\ call.constraint_name = Text("memory") => ret = TRUE
              /\ call.constraint_name = Text("disk") => ret = FALSE)

\* an And with a leaf that does not use the name beside one that does
C7_Witness ==
    /\ call.fn = "uses_constraint"
    /\ self = And(<<LeafA, Or(<<LeafB>>)>>)
    /\ call.constraint_name = Text("memory")
    /\ ret = TRUE

(***************************************************************************)
(* C8: after parsing, a boot.method leaf carries the operator written in   *)
(* its raw value with EQ rewritten to CONTAINS and NEQ to NOTCONTAINS, so  *)
(* never EQ or NEQ, and it carries the value written; a leaf of any other  *)
(* name carries the operator written in its raw value.                     *)
(***************************************************************************)
\* the operator a raw value writes: that of its operator token, EQ without one
OperatorOf(text) == IF SignsAt(text) = {} THEN "EQ" ELSE WrittenOperator(text)

Rewritten(operator) ==
    IF operator = "EQ" THEN "CONTAINS"
    ELSE IF operator = "NEQ" THEN "NOTCONTAINS"
    ELSE operator

C8_BootMethodOperator ==
    /\ (/\ Parsed
        /\ DOMAIN call.spec.items = {"boot"}
        /\ DOMAIN call.spec.items["boot"].items = {"method"})
       => /\ ret.type = "Constraint"
          /\ ret.name = Text("boot.method")
          /\ ret.operator \notin {"EQ", "NEQ"}
          /\ ret.operator
                = Rewritten(OperatorOf(call.spec.items["boot"].items["method"].text))
          /\ (call.spec.items["boot"].items["method"].text
                = <<"!", "=", "x">> => ret.raw_value = <<"x">>)
    /\ (/\ Parsed
        /\ \E key \in {"arch", "hostname"} : DOMAIN call.spec.items = {key})
       => /\ ret.type = "Constraint"
          /\ \A key \in DOMAIN call.spec.items :
                ret.operator = OperatorOf(call.spec.items[key].text)

(***************************************************************************)
(* C9: the handler of a leaf is the handler of its operator, when          *)
(* from_specification returns it and after every change_operator.          *)
(***************************************************************************)
C9_HandlerMatchesOperator ==
    self.type = "Constraint"
    => self.operator_handler = OPERATOR_TO_HANDLER(self.operator)

\* a leaf parsed as EQ whose operator was changed
C9_Witness ==
    /\ call.fn = "change_operator"
    /\ call.operator = "NOTCONTAINS"
    /\ self.raw_value = <<"x">>
    /\ self.operator = "NOTCONTAINS"

(***************************************************************************)
(* C10: a raw value that is an operator token with nothing after it makes  *)
(* from_specification raise ParseError carrying the constraint name and    *)
(* the raw text.                                                           *)
(***************************************************************************)
C10_BareOperatorRaises ==
    (/\ call.fn = "from_specification"
     /\ \E op \in Operator : call.raw_value = OperatorValue(op))
    => /\ ret.type = "ParseError"
       /\ ret.constraint_name = call.name
       /\ ret.raw_value = call.raw_value

(***************************************************************************)
(* C11: parse_hw_requirements is fail-fast: when some leaf value the       *)
(* dispatcher visits, at any depth, fails the value grammar, the call ends *)
(* with ParseError and no tree is returned; otherwise it returns a tree.   *)
(***************************************************************************)
\* the texts of the keys of spec among keys, as str() gives them
TextsAt(spec, keys) == {PyStr(spec.items[k]) : k \in keys \cap DOMAIN spec.items}

\* the leaf texts under one top-level key of a generic block
NamespaceTexts(key, value) ==
    CASE key \in {"arch", "hostname", "memory"} -> {PyStr(value)}
      [] key = "boot" -> TextsAt(value, {"method"})
      [] key = "cpu" -> TextsAt(value, CpuKeys)
      [] key = "disk" ->
            IF value.py = "dict" THEN TextsAt(value, {"size"})
            ELSE UNION {TextsAt(value.elements[i], {"size"}) :
                            i \in 1..Len(value.elements)}
      [] key = "network" ->
            UNION {TextsAt(value.elements[i], {"type"}) :
                        i \in 1..Len(value.elements)}
      [] key = "virtualization" ->
            TextsAt(value, {"is-virtualized", "is-supported", "hypervisor"})
      [] OTHER -> {}

\* the leaf texts the dispatcher visits in a block
RECURSIVE VisitedTexts(_)
VisitedTexts(spec) ==
    IF In("and", spec) \/ In("or", spec)
    THEN LET members == IF In("and", spec) THEN spec.items["and"].elements
                        ELSE spec.items["or"].elements
         IN  UNION {VisitedTexts(members[i]) : i \in 1..Len(members)}
    ELSE UNION {NamespaceTexts(k, spec.items[k]) : k \in DOMAIN spec.items}

IsTree(constraint) == constraint.type \in {"Constraint", "And", "Or"}

C11_FailFast ==
    call.fn = "parse_hw_requirements"
    => IF \E text \in VisitedTexts(call.spec) : ~VALUE_PATTERN_match(text).matched
       THEN ret.type = "ParseError" /\ self = None
       ELSE IsTree(ret) /\ self = ret

\* a failing leaf two blocks deep, after a member that was parsed
C11_Witness ==
    /\ call.fn = "parse_hw_requirements"
    /\ call.spec = One("and", List(<<One("arch", Str(<<"x">>)),
                                     One("or", List(<<One("memory", Str(<<>>))>>))>>))
    /\ ret = ParseError(Text("memory"), <<>>)
    /\ self = None

ArchLeaf(text) == from_specification(Text("arch"), text, FALSE, "None")

ArchOr ==
    One("or", List(<<One("arch", Str(<<"x", "8", "6", "_", "6", "4">>)),
                     One("arch", Str(<<"a", "a", "r", "c", "h", "6", "4">>))>>))

C13_BlockChildrenInOrder ==
    /\ \A key \in {"and", "or"} :
        (/\ Parsed
         /\ DOMAIN call.spec.items = {key}
         /\ Len(call.spec.items[key].elements) >= 2)
        => LET members == call.spec.items[key].elements
           IN  /\ ret.type = (IF key = "and" THEN "And" ELSE "Or")
               /\ Len(ret.constraints) = Len(members)
               /\ \A i \in 1..Len(members) :
                    ret.constraints[i] = _parse_block(members[i])
    /\ (Parsed /\ call.spec = ArchOr)
        => /\ ret = Or(<<ArchLeaf(<<"x", "8", "6", "_", "6", "4">>),
                         ArchLeaf(<<"a", "a", "r", "c", "h", "6", "4">>)>>)
           /\ ret.constraints[1].operator = "EQ"
           /\ ret.constraints[2].operator = "EQ"
    /\ (call.fn = "spans" /\ self = parse_hw_requirements(ArchOr))
        => ret = << call.members \o <<ArchLeaf(<<"x", "8", "6", "_", "6", "4">>)>>,
                    call.members \o <<ArchLeaf(<<"a", "a", "r", "c", "h", "6", "4">>)>> >>

\* the spans of the parsed example
C13_Witness ==
    /\ call.fn = "spans"
    /\ self = parse_hw_requirements(ArchOr)
    /\ self.type = "Or"
    /\ Len(ret) = 2

(***************************************************************************)
(* C14: the block dispatcher takes one branch per block: a block with the  *)
(* key and is parsed from the value of and alone; otherwise a block with   *)
(* the key or is parsed from the value of or alone; a block with neither   *)
(* is parsed as a generic block.  The keys beside the chosen key add no    *)
(* node, and their values are not visited.                                 *)
(***************************************************************************)
C14_OneBranchPerBlock ==
    call.fn = "parse_hw_requirements"
    => IF In("and", call.spec)
       THEN /\ ret = parse_hw_requirements(One("and", call.spec.items["and"]))
            /\ ret = _parse_and(call.spec.items["and"])
       ELSE IF In("or", call.spec)
       THEN /\ ret = parse_hw_requirements(One("or", call.spec.items["or"]))
            /\ ret = _parse_or(call.spec.items["or"])
       ELSE ret = _parse_generic_spec(call.spec)

\* a block with and, or and two leaf-bearing keys, one of them unparsable
C14_Witness ==
    /\ call.fn = "parse_hw_requirements"
    /\ DOMAIN call.spec.items = {"and", "or", "arch", "memory"}
    /\ PyStr(call.spec.items["memory"]) = <<>>
    /\ ret = And(<<ArchLeaf(<<"x">>),
                   from_specification(Text("memory"), <<"x">>, TRUE, "None")>>)

(***************************************************************************)
(* C15: the children of the And group of a generic block come in the order *)
(* arch, boot, cpu, memory, disk, network, hostname, virtualization, one   *)
(* child for each key present and none for an absent key.                  *)
(***************************************************************************)
GenericOrder ==
    <<"arch", "boot", "cpu", "memory", "disk", "network", "hostname",
      "virtualization">>

\* the keys of a generic block, in the fixed order
PresentKeys(spec) ==
    LET Present(key) == In(key, spec)
    IN  SelectSeq(GenericOrder, Present)

\* the first component of a dotted name
Namespace(name) ==
    SubSeq(name, 1,
           Min({i \in 1..(Len(name) + 1) :
                    i = Len(name) + 1 \/ name[i] \in {".", "["}}) - 1)

KeyText(key) ==
    CASE key = "arch" -> Text("arch")
      [] key = "boot" -> <<"b", "o", "o", "t">>
      [] key = "cpu" -> Text("cpu")
      [] key = "memory" -> Text("memory")
      [] key = "disk" -> Text("disk")
      [] key = "network" -> Text("network")
      [] key = "hostname" -> Text("hostname")
      [] key = "virtualization" ->
            <<"v", "i", "r", "t", "u", "a", "l", "i", "z", "a", "t", "i", "o", "n">>

C15_GenericChildrenInFixedOrder ==
    (/\ Parsed
     /\ ~In("and", call.spec)
     /\ ~In("or", call.spec)
     /\ Len(PresentKeys(call.spec)) >= 2)
    => LET keys == PresentKeys(call.spec)
       IN  /\ ret.type = "And"
           /\ Len(ret.constraints) = Len(keys)
           /\ \A i \in 1..Len(keys) :
                /\ ret.constraints[i]
                     = parse_hw_requirements(One(keys[i], call.spec.items[keys[i]]))
                /\ \A leaf \in LeavesOf(ret.constraints[i]) :
                     Namespace(leaf.name) = KeyText(keys[i])

\* a block holding every one of the eight keys
C15_Witness ==
    /\ Parsed
    /\ DOMAIN call.spec.items = TopKeys
    /\ Len(ret.constraints) = 8
    /\ ret.constraints[1].name = Text("arch")
    /\ ret.constraints[4].name = Text("memory")
    /\ ret.constraints[7].name = Text("hostname")

(***************************************************************************)
(* C16: to_serialized maps a leaf to a mapping with exactly the keys name, *)
(* operator and value, and a compound node to a mapping with the single    *)
(* key "and" for an And and "or" for an Or, whose value lists the          *)
(* serialized children in child order, at every level.                     *)
(***************************************************************************)
RECURSIVE IsSerializedOf(_, _)
IsSerializedOf(mapping, constraint) ==
    IF constraint.type \in {"And", "Or"}
    THEN LET key == IF constraint.type = "And" THEN "and" ELSE "or"
         IN  /\ DOMAIN mapping = {key}
             /\ Len(mapping[key]) = Len(constraint.constraints)
             /\ \A i \in 1..Len(constraint.constraints) :
                    IsSerializedOf(mapping[key][i], constraint.constraints[i])
    ELSE /\ DOMAIN mapping = {"name", "operator", "value"}
         /\ mapping["name"] = constraint.name
         /\ mapping["operator"] = constraint.operator
         /\ mapping["value"] = constraint.value

C16_SerializedShape == call.fn = "to_serialized" => IsSerializedOf(ret, self)

\* an Or nested in an And, serialized
C16_Witness ==
    /\ call.fn = "to_serialized"
    /\ self.type = "And"
    /\ Len(self.constraints) = 2
    /\ self.constraints[2].type = "Or"
    /\ self.constraints[1].type = "Constraint"
    /\ DOMAIN ret = {"and"}
    /\ DOMAIN ret["and"][2] = {"or"}
    /\ DOMAIN ret["and"][1] = {"name", "operator", "value"}

(***************************************************************************)
(* C17: the tree is read-only once built: uses_constraint, spans (consumed *)
(* or abandoned), expand_name and to_serialized leave the tree and the     *)
(* list passed as members as they were; the lists spans yields are new     *)
(* objects, so appending to one changes neither the tree, nor the list     *)
(* passed as members, nor another yielded list.  The one change of a leaf  *)
(* is the change_operator of _parse_boot, made before the leaf is          *)
(* returned.                                                               *)
(***************************************************************************)
ReadingCalls ==
    {"uses_constraint", "spans", "next(spans)", "expand_name", "to_serialized"}

BootMethodBlock == One("boot", One("method", Str(<<"x">>)))

C17_TreeReadOnly ==
    [][/\ (self # None) => (self' = self)
       /\ (call'.fn \in ReadingCalls) => (self' = self)
       /\ (call'.fn \in {"spans", "next(spans)"})
            => /\ objects'.members = call'.members
               /\ Len(objects'.spans) = Len(ret')
               /\ \A i \in 1..Len(ret') :
                    /\ objects'.spans[i] # MembersObject
                    /\ objects'.spans[i]
                         \notin {ConstraintsObject(path) : path \in CompoundPaths(self')}
                    /\ \A j \in 1..Len(ret') :
                         (i # j) => (objects'.spans[i] # objects'.spans[j])
       /\ (call'.fn = "span.append")
            => /\ self' = self
               /\ objects'.members = objects.members
               /\ objects'.members = call'.members
               /\ ret'[call'.index] # ret[call'.index]
               /\ \A i \in 1..Len(ret) :
                    (i # call'.index) => (ret'[i] = ret[i])
       /\ (call'.fn = "parse_hw_requirements" /\ call'.spec = BootMethodBlock)
            => ret' = change_operator(
                        from_specification(Text("boot.method"), <<"x">>,
                                           FALSE, "None"),
                        "CONTAINS")
      ]_vars

\* a list yielded by an Or with a prefix was appended to, the other was not
C17_Witness ==
    /\ call.fn = "span.append"
    /\ self.type = "Or"
    /\ call.members # <<>>
    /\ call.index = 1
    /\ Len(ret) = 2
    /\ Len(ret[1]) = Len(ret[2]) + 1
    /\ objects.members = call.members

(***************************************************************************)
(* C18: uses_constraint on a leaf is true exactly when the property        *)
(* component of the leaf's name, the part before the index and the child   *)
(* name, equals the name asked: disk[0].size uses "disk"; cpu.cores uses   *)
(* "cpu" and neither "cpu.cores" nor "cores"; memory uses "memory".        *)
(***************************************************************************)
\* the part of a constraint name before its first "[" or "."
PropertyComponent(name) ==
    SubSeq(name, 1, LeadingRun(name, {c \in {name[i] : i \in 1..Len(name)} :
                                        c \notin {"[", "."}}))

CpuCoresName == Text("cpu") \o <<".">> \o Text("cores")

DiskSizeName == Text("disk") \o <<"[", "0", "]", ".">> \o Text("size")

C18_LeafUsesProperty ==
    (call.fn = "uses_constraint" /\ self.type = "Constraint")
    => /\ ret = (PropertyComponent(self.name) = call.constraint_name)
       /\ (self.name = DiskSizeName /\ call.constraint_name = Text("disk"))
            => ret = TRUE
       /\ (self.name = CpuCoresName)
            => ret = (call.constraint_name = Text("cpu"))
       /\ (self.name = Text("memory") /\ call.constraint_name = Text("memory"))
            => ret = TRUE

\* the leaf cpu.cores asked for its own whole name
C18_Witness ==
    /\ call.fn = "uses_constraint"
    /\ self.type = "Constraint"
    /\ self.name = CpuCoresName
    /\ call.constraint_name = CpuCoresName
    /\ ret = FALSE

(***************************************************************************)
(* C19: the value of a leaf is converted as its namespace says.  The       *)
(* leaves arch, hostname, boot.method, cpu.model_name,                     *)
(* virtualization.hypervisor and network[i].type hold the value text as a  *)
(* plain string; memory, cpu.processors, cpu.cores, cpu.model, cpu.family  *)
(* and disk[i].size hold the quantity made of the value text;              *)
(* virtualization.is_virtualized and virtualization.is_supported hold the  *)
(* boolean cast of the value text; the key model-name gives the leaf name  *)
(* cpu.model_name.  Every leaf of a parsed tree has one of these names.    *)
(***************************************************************************)
CpuModelName ==
    Text("cpu") \o <<".", "m", "o", "d", "e", "l", "_", "n", "a", "m", "e">>

Indexed(name, index, child) ==
    Text(name) \o <<"[">> \o IntText(index) \o <<"]", ".">> \o Text(child)

StringNames ==
    {Text("arch"), Text("hostname"), Text("boot.method"), CpuModelName,
     Text("virtualization.hypervisor")}
    \cup {Indexed("network", i, "type") : i \in 0..10}

QuantityNames ==
    {Text("memory")}
    \cup {Text("cpu") \o <<".">> \o Text(k) :
            k \in {"processors", "cores", "model", "family"}}
    \cup {Indexed("disk", i, "size") : i \in 0..10}

BooleanNames ==
    {Text("virtualization.is_virtualized"), Text("virtualization.is_supported")}

\* the value text of a raw value: what follows the operator sign and the
\* whitespace around it
ValueText(raw_value) == VALUE_PATTERN_match(raw_value).value

\* the leaf text a one-key block of the namespace key holds
LeafText(value) == ValueText(PyStr(value))

C19_ValueConversion ==
    (call.fn = "parse_hw_requirements" /\ IsTree(ret))
    => /\ \A leaf \in LeavesOf(ret) :
            /\ leaf.name \in StringNames \cup QuantityNames \cup BooleanNames
            /\ (leaf.name \in StringNames)
                 => leaf.value = [kind |-> "str", text |-> leaf.raw_value]
            /\ (leaf.name \in QuantityNames)
                 => leaf.value = [kind |-> "Quantity", text |-> leaf.raw_value]
            /\ (leaf.name \in BooleanNames)
                 => leaf.value = [kind |-> "bool", truth |-> leaf.raw_value # <<>>]
       /\ (ret.type = "Constraint")
            => ret.raw_value \in {ValueText(text) : text \in VisitedTexts(call.spec)}
       /\ \A value \in {Str(t) : t \in SpecTexts} :
            /\ (call.spec = One("cpu", One("model-name", value)))
                 => /\ ret.name = CpuModelName
                    /\ ret.value = [kind |-> "str", text |-> LeafText(value)]
            /\ (call.spec = One("memory", value))
                 => /\ ret.name = Text("memory")
                    /\ ret.value = [kind |-> "Quantity", text |-> LeafText(value)]
       /\ \A value \in Truths :
            (call.spec = One("virtualization", One("is-virtualized", value)))
                 => /\ ret.name = Text("virtualization.is_virtualized")
                    /\ ret.value = [kind |-> "bool", truth |-> LeafText(value) # <<>>]

\* is-virtualized: false, whose text "False" the cast bool turns into True
C19_Witness ==
    /\ call.fn = "parse_hw_requirements"
    /\ call.spec = One("virtualization", One("is-virtualized", Bool(FALSE)))
    /\ ret.type = "Constraint"
    /\ ret.name = Text("virtualization.is_virtualized")
    /\ ret.value = [kind |-> "bool", truth |-> TRUE]

(***************************************************************************)
(* C20: spans are sound and complete for the boolean meaning of the tree.  *)
(* For every tree of leaves, And and Or and every assignment of true or    *)
(* false to the leaves, the tree holds under its reducers (And: all the    *)
(* children, Or: at least one child) exactly when spans yields at least    *)
(* one span all of whose leaves are true; the leaves of a prefix passed as *)
(* members count as leaves that must be true too.                          *)
(***************************************************************************)
\* the value of the tree under its reducers, truth giving the value of each leaf
RECURSIVE Holds(_, _)
Holds(constraint, truth) ==
    IF IsCompound(constraint)
    THEN IF constraint.reducer = "all"
         THEN \A i \in 1..Len(constraint.constraints) :
                  Holds(constraint.constraints[i], truth)
         ELSE \E i \in 1..Len(constraint.constraints) :
                  Holds(constraint.constraints[i], truth)
    ELSE truth[constraint]

AllTrue(span, truth) == \A i \in 1..Len(span) : truth[span[i]]

\* the leaves a truth value is given to: those of the tree and of the prefix
AssignedLeaves(constraint, members) ==
    LeavesOf(constraint) \cup {members[i] : i \in 1..Len(members)}

C20_SpansSoundAndComplete ==
    (call.fn = "spans" /\ IsTree(self))
    => \A truth \in [AssignedLeaves(self, call.members) -> BOOLEAN] :
          (Holds(self, truth) /\ AllTrue(call.members, truth))
          <=> (\E n \in 1..Len(ret) : AllTrue(ret[n], truth))

\* an And over an Or of two leaves and a leaf: two spans, no prefix
C20_Witness ==
    /\ call.fn = "spans"
    /\ call.members = <<>>
    /\ self = And(<<Or(<<LeafA, LeafB>>), LeafC>>)
    /\ ret = << <<LeafA, LeafC>>, <<LeafB, LeafC>> >>
    /\ Holds(self, [leaf \in {LeafA, LeafB, LeafC} |-> leaf \in {LeafB, LeafC}])
    /\ ~Holds(self, [leaf \in {LeafA, LeafB, LeafC} |-> leaf \in {LeafA, LeafB}])

(***************************************************************************)
(* C21: every span that spans yields on a tree of leaves, And and Or holds *)
(* only leaf constraints, never an And or an Or, and each of them is a     *)
(* leaf of the tree; a prefix passed as members stands before them.        *)
(***************************************************************************)
C21_SpansHoldLeavesOfTree ==
    (call.fn = "spans" /\ IsTree(self))
    => \A n \in 1..Len(ret) :
          /\ Len(ret[n]) >= Len(call.members)
          /\ \A i \in (Len(call.members) + 1)..Len(ret[n]) :
                /\ ret[n][i].type = "Constraint"
                /\ ret[n][i] \in LeavesOf(self)

\* the spans of an And whose children are a leaf and an Or of two leaves
C21_Witness ==
    /\ call.fn = "spans"
    /\ call.members = <<>>
    /\ self = And(<<LeafA, Or(<<LeafB, LeafC>>)>>)
    /\ ret = << <<LeafB, LeafA>>, <<LeafC, LeafA>> >>

(***************************************************************************)
(* C22: the prefix is put in front exactly once.  For every node (leaf,    *)
(* And, Or) and every prefix, spans with the prefix yields as many spans,  *)
(* in the same order, as spans without a prefix, and its i-th span is the  *)
(* prefix followed by the i-th span yielded without a prefix; a leaf       *)
(* yields the single span made of the prefix and the leaf.  The children   *)
(* are not given the prefix.                                               *)
(***************************************************************************)
\* how many times the members of the prefix occur in a span
Occurrences(span, prefix) ==
    Cardinality({i \in 1..Len(span) : \E j \in 1..Len(prefix) : span[i] = prefix[j]})

C22_PrefixOnce ==
    (call.fn = "spans" /\ IsTree(self))
    => LET without == spans(self, <<>>)
       IN  /\ Len(ret) = Len(without)
           /\ \A i \in 1..Len(ret) :
                /\ ret[i] = call.members \o without[i]
                /\ Occurrences(ret[i], call.members) = Len(call.members)
           /\ (self.type = "Constraint") => ret = << call.members \o <<self>> >>

\* an Or inside an Or, with a prefix: three spans, each starting with it
C22_Witness ==
    /\ call.fn = "spans"
    /\ call.members # <<>>
    /\ self = Or(<<Or(<<LeafA, LeafB>>), LeafC>>)
    /\ ret = << call.members \o <<LeafA>>, call.members \o <<LeafB>>,
                call.members \o <<LeafC>> >>

(***************************************************************************)
(* C23: unwrapping a single child does not change the spans.  For every    *)
(* node X (leaf, And or Or), And([X]) and Or([X]) yield the same sequence  *)
(* of spans as X, so that what ungroupify returns for a group has the      *)
(* spans of the group.                                                     *)
(***************************************************************************)
C23_UnwrappingKeepsSpans ==
    (call.fn = "spans" /\ IsTree(self))
    => /\ spans(And(<<self>>), call.members) = ret
       /\ spans(Or(<<self>>), call.members) = ret
       /\ ungroupify(And(<<self>>)) = self
       /\ ungroupify(Or(<<self>>)) = self
       /\ spans(ungroupify(self), call.members) = ret

\* the spans of an And whose only child is an Or of two leaves
C23_Witness ==
    /\ call.fn = "spans"
    /\ self = And(<<Or(<<LeafA, LeafB>>)>>)
    /\ ungroupify(self) = Or(<<LeafA, LeafB>>)
    /\ ret = spans(Or(<<LeafA, LeafB>>), call.members)
    /\ Len(ret) = 2

(***************************************************************************)
(* C24: span counts at the edges.  An And yields as many spans as the      *)
(* product of the span counts of its compound children: an And with no     *)
(* children, which the empty specification {} parses to, yields exactly    *)
(* one span, equal to the prefix; an And with only simple children yields  *)
(* exactly one span; an And with a compound child that yields no span      *)
(* (an Or with no children) yields no span.  An Or with no children yields *)
(* no span.                                                                *)
(***************************************************************************)
C24_SpanCountsAtEdges ==
    /\ parse_hw_requirements(Dict(EmptyItems)) = And(<<>>)
    /\ (call.fn = "spans" /\ self.type = "And")
       => LET compounds == SelectSeq(self.constraints, IsCompound)
              counts == [i \in 1..Len(compounds) |->
                            Len(spans(compounds[i], <<>>))]
          IN  /\ Len(ret) = ProductOf(counts)
              /\ (self.constraints = <<>>) => ret = << call.members >>
              /\ (compounds = <<>>)
                   => ret = << call.members \o self.constraints >>
              /\ (\E i \in 1..Len(counts) : counts[i] = 0) => ret = <<>>
              /\ (\E i \in 1..Len(self.constraints) :
                    self.constraints[i] = Or(<<>>)) => ret = <<>>
    /\ (call.fn = "spans" /\ self = Or(<<>>)) => ret = <<>>

\* an And of an Or of two leaves and an Or with no children: no span
C24_Witness ==
    /\ call.fn = "spans"
    /\ self = And(<<Or(<<LeafA, LeafB>>), Or(<<>>)>>)
    /\ ret = <<>>

(***************************************************************************)
(* C25: every leaf from_specification builds has a value text that is not  *)
(* empty and has no whitespace at its start or its end, and a raw value    *)
(* whose value portion is empty after trimming (the empty string,          *)
(* whitespace only, or an operator sign followed by whitespace only) never *)
(* gives a leaf.                                                           *)
(***************************************************************************)
\* the raw value is an operator sign, or nothing, followed by whitespace only
EmptyValuePortion(raw_value) ==
    \E sign \in {OperatorValue(op) : op \in Operator} \cup {<<>>} :
        /\ IsPrefix(sign, raw_value)
        /\ AllWhitespace(Drop(raw_value, Len(sign)))

C25_ValueTextTrimmed ==
    (call.fn = "from_specification")
    => /\ (ret.type = "Constraint")
            => /\ ret.raw_value # <<>>
               /\ ret.raw_value[1] \notin Whitespace
               /\ ret.raw_value[Len(ret.raw_value)] \notin Whitespace
       /\ EmptyValuePortion(call.raw_value) => ret.type = "ParseError"

(***************************************************************************)
(* C26: every constraint name the parsers make (arch, hostname, memory,    *)
(* boot.method, cpu.processors, cpu.cores, cpu.model, cpu.family,          *)
(* cpu.model_name, virtualization.is_virtualized,                          *)
(* virtualization.is_supported, virtualization.hypervisor, disk[i].size,   *)
(* network[i].type) is matched by the name grammar: the assertion of       *)
(* expand_name never fails on a leaf of a parsed tree, and the result is   *)
(* the property (the text before "[" or "."), the index (the integer i, or *)
(* none) and the child (the text after ".", or none).                      *)
(***************************************************************************)
Components(property, index, child) ==
    [type |-> "ConstraintNameComponents",
     property |-> property,
     property_index |-> index,
     child_property |-> child]

NoneGroup == [none |-> TRUE]

\* the names listed with their components; i up to the longest list
ExpectedComponents ==
    {<<Text(k), Components(Text(k), NoneGroup, NoneGroup)>> :
        k \in {"arch", "hostname", "memory"}}
    \cup {<<Text("boot.method"),
            Components(<<"b", "o", "o", "t">>, NoneGroup,
                       [none |-> FALSE, text |-> <<"m", "e", "t", "h", "o", "d">>])>>}
    \cup {<<Text("cpu") \o <<".">> \o Text(k),
            Components(Text("cpu"), NoneGroup, [none |-> FALSE, text |-> Text(k)])>> :
        k \in {"processors", "cores", "model", "family"}}
    \cup {<<CpuModelName,
            Components(Text("cpu"), NoneGroup,
                       [none |-> FALSE,
                        text |-> <<"m", "o", "d", "e", "l", "_", "n", "a", "m", "e">>])>>}
    \cup {<<Text(k), Components(PropertyComponent(Text(k)), NoneGroup,
                                [none |-> FALSE,
                                 text |-> Drop(Text(k), Len("virtualization") + 1)])>> :
        k \in {"virtualization.is_virtualized", "virtualization.is_supported",
               "virtualization.hypervisor"}}
    \cup {<<Indexed(k[1], i, k[2]),
            Components(Text(k[1]), [none |-> FALSE, int |-> i],
                       [none |-> FALSE, text |-> Text(k[2])])>> :
        k \in {<<"disk", "size">>, <<"network", "type">>}, i \in 0..10}

ExpectedOf(name) == (CHOOSE e \in ExpectedComponents : e[1] = name)[2]

C26_GeneratedNamesDecompose ==
    /\ (call.fn = "parse_hw_requirements" /\ IsTree(ret))
       => \A leaf \in LeavesOf(ret) :
             /\ PROPERTY_EXPAND_PATTERN_match(leaf.name).matched
             /\ \E e \in ExpectedComponents : e[1] = leaf.name
             /\ expand_name(leaf) = ExpectedOf(leaf.name)
             /\ expand_name(leaf).property = PropertyComponent(leaf.name)
    /\ (call.fn = "expand_name")
       => /\ ret.type = "ConstraintNameComponents"
          /\ ret = ExpectedOf(self.name)

\* expand_name called on the leaf disk[0].size that the mapping form of disk
\* parses to
C26_Witness ==
    /\ call.fn = "expand_name"
    /\ self.name = Indexed("disk", 0, "size")
    /\ ret = Components(Text("disk"), [none |-> FALSE, int |-> 0],
                        [none |-> FALSE, text |-> Text("size")])

(***************************************************************************)
(* C27: in the list forms of disk and network the index in the name of a   *)
(* leaf is the position of its mapping in the list, counted from 0: the    *)
(* k-th mapping of a disk list gives the leaf disk[k].size, the k-th       *)
(* mapping of a network list the leaf network[k].type, in list order; a    *)
(* mapping without the key gives no leaf and the mappings after it keep    *)
(* their own positions.                                                    *)
(***************************************************************************)
\* the leaves of a tree from left to right
RECURSIVE LeafSeq(_)
LeafSeq(constraint) ==
    IF IsCompound(constraint)
    THEN Flatten([i \in 1..Len(constraint.constraints) |->
                    LeafSeq(constraint.constraints[i])])
    ELSE <<constraint>>

\* the decimal digits of a position below twenty
PositionText(k) == IF k < 10 THEN <<Digits[k + 1]>> ELSE <<"1", Digits[k - 9]>>

\* the positions (from 0) of the mappings of the list that hold the key
PositionsWith(key, elements) ==
    LET Holds_key(k) == key \in DOMAIN elements[k + 1].items
    IN  SelectSeq([i \in 1..Len(elements) |-> i - 1], Holds_key)

ListKeys == {<<"disk", "size">>, <<"network", "type">>}

C27_IndexIsPosition ==
    \A k \in ListKeys :
        (/\ call.fn = "parse_hw_requirements"
         /\ DOMAIN call.spec.items = {k[1]}
         /\ call.spec.items[k[1]].py = "list"
         /\ IsTree(ret))
        => LET elements == call.spec.items[k[1]].elements
               positions == PositionsWith(k[2], elements)
               leaves == LeafSeq(ret)
           IN  /\ Len(leaves) = Len(positions)
               /\ \A n \in 1..Len(leaves) :
                    /\ leaves[n].name
                         = Text(k[1]) \o <<"[">> \o PositionText(positions[n])
                             \o <<"]", ".">> \o Text(k[2])
                    /\ leaves[n].raw_value
                         = ValueText(PyStr(elements[positions[n] + 1].items[k[2]]))

\* a disk list whose first mapping holds no size: the one leaf is disk[1].size
C27_Witness ==
    /\ call.fn = "parse_hw_requirements"
    /\ call.spec = One("disk", List(<<Dict(EmptyItems), One("size", Str(<<"x">>))>>))
    /\ IsTree(ret)
    /\ Len(LeafSeq(ret)) = 1
    /\ LeafSeq(ret)[1].name = Text("disk") \o <<"[", "1", "]", ".">> \o Text("size")

(***************************************************************************)
(* C28: the boolean leaves hold the truth value written in the             *)
(* specification: for is-virtualized and is-supported of virtualization    *)
(* the value of the leaf is true when the value written is true (or the    *)
(* text "true") and false when it is false (or the text "false").          *)
(***************************************************************************)
\* the truth value a specification value writes
WrittenTruth(value) ==
    IF value.py = "bool" THEN value.truth ELSE value.text = <<"t", "r", "u", "e">>

C28_BooleanAsWritten ==
    \A key \in {"is-virtualized", "is-supported"} :
        \A value \in Truths \ {Str(<<>>)} :
            (/\ call.fn = "parse_hw_requirements"
             /\ call.spec = One("virtualization", One(key, value)))
            => /\ ret.type = "Constraint"
               /\ ret.value = [kind |-> "bool", truth |-> WrittenTruth(value)]

(***************************************************************************)
(* C29: spans on a compound node that is neither an And nor an Or fails    *)
(* with NotImplementedError and yields no span, and the enumeration of the *)
(* spans of an And or an Or that has such a node anywhere below it fails   *)
(* with NotImplementedError too: it never ends as if the node were not     *)
(* there.  An And that fails has yielded nothing.                          *)
(***************************************************************************)
\* the tree holds a compound node that is neither an And nor an Or
RECURSIVE HoldsBareCompound(_)
HoldsBareCompound(constraint) ==
    \/ constraint.type = "CompoundConstraint"
    \/ /\ IsCompound(constraint)
       /\ \E i \in 1..Len(constraint.constraints) :
              HoldsBareCompound(constraint.constraints[i])

C29_BareCompoundFails ==
    (call.fn = "spans")
    => /\ HoldsBareCompound(self) => exception = NotImplementedError
       /\ ~HoldsBareCompound(self) => exception = None
       /\ (self.type = "CompoundConstraint") => ret = <<>>
       /\ (self.type = "And" /\ HoldsBareCompound(self)) => ret = <<>>

\* an Or of a leaf and a bare compound node: the span of the leaf, then the
\* failure
C29_Witness ==
    /\ call.fn = "spans"
    /\ self = Or(<<LeafA, CompoundConstraint("any", <<LeafB>>)>>)
    /\ ret = << call.members \o <<LeafA>> >>
    /\ exception = NotImplementedError

====
